---- MODULE Spec2Model ----
(***************************************************************************)
(* The two channel-based coordinators of gomap/concurrent.go:              *)
(*   - concurrentMap ("typed"): one unbuffered channel per request kind,   *)
(*     a worker goroutine selecting over all of them;                      *)
(*   - channelConcurrentMap ("uniform"): one shared channel of capacity 1  *)
(*     carrying tagged requests, a worker dispatching on the dynamic type, *)
(*     and Close().                                                        *)
(* Goroutines are tasks with a program position; an unbuffered channel     *)
(* operation is a rendezvous step of the sender and the receiver.          *)
(***************************************************************************)
EXTENDS Integers, Sequences, FiniteSets, TLC

\* ------------------------------------------------------------- bounds
NumCallers == 2
NumAsync == 2
NumKeys == 1
NumValues == 2
MaxCalls == 2

Callers == 1..NumCallers
\* The goroutines the XAsync methods spawn.
AsyncTasks == (NumCallers + 1)..(NumCallers + NumAsync)
Tasks == Callers \cup AsyncTasks
Keys == 1..NumKeys
Values == 1..NumValues
\* The zero value: no key, no value, no element, no task.
Nil == 0

VARIABLES
    variant,    \* "typed" (concurrentMap) or "uniform" (channelConcurrentMap)
    storage,    \* the underlying Map: a function from the present keys to values
    pc,         \* per task: its position in the synchronous call
    req,        \* per task: the request of the call in progress
    result,     \* per task: what its last completed call returned
    calls,      \* per task: number of calls started
    requestCh,  \* uniform: the buffer of the shared channel
    closed,     \* uniform: requestCh has been closed
    wpc,        \* worker: position in loopMap
    wreq,       \* worker: the request received
    wres,       \* worker: the value to write to the reply channel
    inMap,      \* the tasks whose request is executing against storage
    fatal,      \* "none", or the panic that aborted the process
    cb,         \* per spawned task: the values its callback was invoked with
    log         \* history: the requests the worker applied, in order

vars == <<variant, storage, pc, req, result, calls, requestCh, closed,
          wpc, wreq, wres, inMap, fatal, cb, log>>

\* ------------------------------------------------------ underlying Map
EmptyMap == [k \in {} |-> Nil]

MapPut(m, k, v) == [x \in (DOMAIN m) \cup {k} |-> IF x = k THEN v ELSE m[x]]

MapRemove(m, k) == [x \in (DOMAIN m) \ {k} |-> m[x]]

MapClear(m) == EmptyMap

MapContains(m, k) == k \in DOMAIN m

MapLength(m) == Cardinality(DOMAIN m)

MapKeys(m) == DOMAIN m

MapGet(m, k) ==
    IF k \in DOMAIN m THEN [element |-> m[k], found |-> TRUE]
    ELSE [element |-> Nil, found |-> FALSE]

MapString(m) == <<"map", m>>

\* Map.Set and Map.Delete of the Map that concurrentMap wraps return the new length.
MapSetLen(m, k, v) == [storage |-> MapPut(m, k, v), ret |-> MapLength(MapPut(m, k, v))]

MapDeleteLen(m, k) == [storage |-> MapRemove(m, k), ret |-> MapLength(MapRemove(m, k))]

\* Map.Set and Map.Delete of the Map that channelConcurrentMap wraps return the
\* previous element and whether there was one.
MapSetPrev(m, k, v) == [storage |-> MapPut(m, k, v), ret |-> MapGet(m, k)]

MapDeletePrev(m, k) == [storage |-> MapRemove(m, k), ret |-> MapGet(m, k)]

\* ------------------------------------------------------------ replies
\* The values carried by the reply channels, by element type.
NoReply == <<>>

DoneR == <<"done">>

IntR(n) == <<"int", n>>

BoolR(b) == <<"bool", b>>

\* *getResult, *setResult, *deleteResult: an element and whether it was found.
FoundR(g) == <<"found", g.element, g.found>>

KeysR(ks) == <<"keys", ks>>

StringR(str) == <<"string", str>>

MapR == <<"cm.storage">>

RawR == <<"cm.storage.UnderlyingStorage()">>

\* ---------------------------------------------------------- requests
Req(api, op, k, v) == [api |-> api, op |-> op, key |-> k, val |-> v]

NoReq == Req("none", "none", Nil, Nil)

\* The synchronous operations of concurrentMap and the channel each sends on.
TypedRequests ==
    {Req("UnderlyingMap", "accessMap", Nil, Nil),
     Req("UnderlyingStorage", "accessStorage", Nil, Nil),
     Req("Clear", "clear", Nil, Nil),
     Req("IsEmpty", "len", Nil, Nil),
     Req("Length", "len", Nil, Nil)}
    \cup {Req("Contains", "contains", k, Nil) : k \in Keys}
    \cup {Req("Delete", "delete", k, Nil) : k \in Keys}
    \cup {Req("Get", "get", k, Nil) : k \in Keys}
    \cup {Req("Set", "set", k, v) : k \in Keys, v \in Values}

\* The synchronous operations of channelConcurrentMap and the request type each sends.
UniformRequests ==
    {Req("String", "string", Nil, Nil),
     Req("Clear", "clear", Nil, Nil),
     Req("Length", "len", Nil, Nil),
     Req("Keys", "keys", Nil, Nil)}
    \cup {Req("Contains", "contains", k, Nil) : k \in Keys}
    \cup {Req("Delete", "delete", k, Nil) : k \in Keys}
    \cup {Req("Get", "get", k, Nil) : k \in Keys}
    \cup {Req("Set", "set", k, v) : k \in Keys, v \in Values}

Requests(v) == IF v = "typed" THEN TypedRequests ELSE UniformRequests

\* make(chan interface{}, 1)
RequestChCap == 1

\* The request types the worker's type switch has a case for.
RecognizedOps == {"clear", "contains", "delete", "get", "len", "keys", "set", "string"}

\* One case of concurrentMap.loopMap's select: the storage after it and the value
\* written to the reply channel.
DispatchTyped(m, r) ==
    CASE r.op = "accessMap" -> [storage |-> m, reply |-> MapR]
      [] r.op = "accessStorage" -> [storage |-> m, reply |-> RawR]
      [] r.op = "clear" -> [storage |-> MapClear(m), reply |-> DoneR]
      [] r.op = "contains" -> [storage |-> m, reply |-> BoolR(MapContains(m, r.key))]
      [] r.op = "delete" ->
           [storage |-> MapDeleteLen(m, r.key).storage,
            reply |-> IntR(MapDeleteLen(m, r.key).ret)]
      [] r.op = "len" -> [storage |-> m, reply |-> IntR(MapLength(m))]
      [] r.op = "get" -> [storage |-> m, reply |-> FoundR(MapGet(m, r.key))]
      [] r.op = "set" ->
           [storage |-> MapSetLen(m, r.key, r.val).storage,
            reply |-> IntR(MapSetLen(m, r.key, r.val).ret)]

\* One case of channelConcurrentMap.loopMap's type switch.
DispatchUniform(m, r) ==
    CASE r.op = "clear" -> [storage |-> MapClear(m), reply |-> DoneR]
      [] r.op = "contains" -> [storage |-> m, reply |-> BoolR(MapContains(m, r.key))]
      [] r.op = "delete" ->
           [storage |-> MapDeletePrev(m, r.key).storage,
            reply |-> FoundR(MapDeletePrev(m, r.key).ret)]
      [] r.op = "get" -> [storage |-> m, reply |-> FoundR(MapGet(m, r.key))]
      [] r.op = "len" -> [storage |-> m, reply |-> IntR(MapLength(m))]
      [] r.op = "keys" -> [storage |-> m, reply |-> KeysR(MapKeys(m))]
      [] r.op = "set" ->
           [storage |-> MapSetPrev(m, r.key, r.val).storage,
            reply |-> FoundR(MapSetPrev(m, r.key, r.val).ret)]
      [] r.op = "string" -> [storage |-> m, reply |-> StringR(MapString(m))]

\* A worker whose set case replies but does not overwrite an entry already present.
DispatchSetLost(v, m, r) ==
    LET d == IF v = "typed" THEN DispatchTyped(m, r) ELSE DispatchUniform(m, r)
    IN  IF r.op = "set" /\ r.key \in DOMAIN m THEN [storage |-> m, reply |-> d.reply] ELSE d

\* A worker whose set case passes value and key to the Map in the wrong order.
DispatchSetSwapped(v, m, r) ==
    LET q == IF r.op = "set" THEN [r EXCEPT !.key = r.val, !.val = r.key] ELSE r
    IN  IF v = "typed" THEN DispatchTyped(m, q) ELSE DispatchUniform(m, q)

\* A worker whose clear case replies without clearing the Map.
DispatchClearSkipped(v, m, r) ==
    LET d == IF v = "typed" THEN DispatchTyped(m, r) ELSE DispatchUniform(m, r)
    IN  IF r.op = "clear" THEN [storage |-> m, reply |-> d.reply] ELSE d

\* A worker whose delete case replies but leaves the entry in the Map.
DispatchDeleteKept(v, m, r) ==
    LET d == IF v = "typed" THEN DispatchTyped(m, r) ELSE DispatchUniform(m, r)
    IN  IF r.op = "delete" THEN [storage |-> m, reply |-> d.reply] ELSE d

\* A worker whose get case makes an entry with the zero value for a key it does
\* not find.
DispatchMissingInserts(v, m, r) ==
    LET d == IF v = "typed" THEN DispatchTyped(m, r) ELSE DispatchUniform(m, r)
    IN  IF r.op = "get" /\ r.key \notin DOMAIN m
        THEN [storage |-> MapPut(m, r.key, Nil), reply |-> d.reply]
        ELSE d

Dispatch(v, m, r) == IF v = "typed" THEN DispatchTyped(m, r) ELSE DispatchUniform(m, r)

\* An UnderlyingMap() that hands out a snapshot instead of the Map the worker uses.
ReturnSnapshot(r, reply) ==
    IF r.api = "UnderlyingMap" THEN <<"copy of cm.storage">>
    ELSE IF r.api = "IsEmpty" THEN BoolR(reply = IntR(0)) ELSE reply

\* What the synchronous method returns from the value read off its reply channel.
Return(r, reply) == IF r.api = "IsEmpty" THEN BoolR(reply = IntR(0)) ELSE reply

\* ------------------------------------------------------------- state
InitWith(vs) ==
    /\ variant \in vs
    /\ storage = EmptyMap
    /\ pc = [t \in Tasks |-> IF t \in Callers THEN "idle" ELSE "unborn"]
    /\ req = [t \in Tasks |-> NoReq]
    /\ result = [t \in Tasks |-> NoReply]
    /\ calls = [t \in Tasks |-> 0]
    /\ requestCh = <<>>
    /\ closed = FALSE
    /\ wpc = "select"
    /\ wreq = [task |-> Nil, req |-> NoReq]
    /\ wres = NoReply
    /\ inMap = {}
    /\ fatal = "none"
    /\ cb = [a \in AsyncTasks |-> <<>>]
    /\ log = <<>>

\* -------------------------------------------------------- caller side
\* A synchronous method is entered: the reply channel is made and the request built;
\* the task stands at the send statement.
Start(t, r) ==
    /\ fatal = "none"
    /\ pc[t] = "idle"
    /\ pc' = [pc EXCEPT ![t] = "send"]
    /\ req' = [req EXCEPT ![t] = r]
    /\ result' = [result EXCEPT ![t] = NoReply]
    /\ calls' = [calls EXCEPT ![t] = @ + 1]
    /\ UNCHANGED <<variant, storage, requestCh, closed, wpc, wreq, wres, inMap, fatal, cb, log>>

\* An XAsync method that makes the synchronous call on the caller's own task.
AsyncCallInline(c, a, r) ==
    /\ fatal = "none"
    /\ variant = "typed"
    /\ pc[c] = "idle"
    /\ pc[a] = "unborn"
    /\ pc' = [pc EXCEPT ![c] = "send"]
    /\ req' = [req EXCEPT ![c] = r]
    /\ calls' = [calls EXCEPT ![c] = @ + 1]
    /\ UNCHANGED <<variant, storage, result, requestCh, closed, wpc, wreq, wres, inMap,
                   fatal, cb, log>>

\* An XAsync method: go func() { r := cm.X(...); callback(r) }() and return. The
\* spawned task a stands at the send statement of X; the caller has returned.
AsyncCall(c, a, r) ==
    /\ fatal = "none"
    /\ variant = "typed"
    /\ pc[c] = "idle"
    /\ pc[a] = "unborn"
    /\ pc' = [pc EXCEPT ![a] = "send"]
    /\ req' = [req EXCEPT ![a] = r]
    /\ calls' = [calls EXCEPT ![c] = @ + 1, ![a] = @ + 1]
    /\ UNCHANGED <<variant, storage, result, requestCh, closed, wpc, wreq, wres, inMap,
                   fatal, cb, log>>

\* A spawned task that invokes the callback with a value it has not received.
CallbackStale(a) ==
    /\ fatal = "none"
    /\ pc[a] = "callback"
    /\ cb' = [cb EXCEPT ![a] = Append(@, NoReply)]
    /\ pc' = [pc EXCEPT ![a] = "exited"]
    /\ UNCHANGED <<variant, storage, req, result, calls, requestCh, closed, wpc, wreq,
                   wres, inMap, fatal, log>>

\* The spawned task invokes the callback with the result of the synchronous call.
Callback(a) ==
    /\ fatal = "none"
    /\ pc[a] = "callback"
    /\ cb' = [cb EXCEPT ![a] = Append(@, result[a])]
    /\ pc' = [pc EXCEPT ![a] = "exited"]
    /\ UNCHANGED <<variant, storage, req, result, calls, requestCh, closed, wpc, wreq,
                   wres, inMap, fatal, log>>

\* A worker that takes the next request while one is still being served.
WorkerAtSelectEager == wpc \in {"select", "exec"}

\* The worker is at its receive (the select of loopMap).
WorkerAtSelect == wpc = "select"

\* concurrentMap: cm.xCh <- request meets the worker's select case (unbuffered).
SendTyped(t) ==
    /\ fatal = "none"
    /\ variant = "typed"
    /\ pc[t] = "send"
    /\ WorkerAtSelect
    /\ pc' = [pc EXCEPT ![t] = "sent"]
    /\ wreq' = [task |-> t, req |-> req[t]]
    /\ wpc' = "dispatch"
    /\ UNCHANGED <<variant, storage, req, result, calls, requestCh, closed, wres, inMap,
                   fatal, cb, log>>

\* A send that treats a closed channel like an open one.
SendUniformIgnoresClose(t) ==
    /\ fatal = "none"
    /\ variant = "uniform"
    /\ pc[t] = "send"
    /\ Len(requestCh) < RequestChCap
    /\ requestCh' = Append(requestCh, [task |-> t, req |-> req[t]])
    /\ pc' = [pc EXCEPT ![t] = "sent"]
    /\ UNCHANGED <<variant, storage, req, result, calls, closed, wpc, wreq, wres, inMap,
                   fatal, cb, log>>

\* A send on a channel that takes any number of requests.
SendUniformUnbounded(t) ==
    /\ fatal = "none"
    /\ variant = "uniform"
    /\ pc[t] = "send"
    /\ IF closed
       THEN /\ fatal' = "send on closed channel"
            /\ UNCHANGED <<pc, requestCh>>
       ELSE /\ requestCh' = Append(requestCh, [task |-> t, req |-> req[t]])
            /\ pc' = [pc EXCEPT ![t] = "sent"]
            /\ UNCHANGED fatal
    /\ UNCHANGED <<variant, storage, req, result, calls, closed, wpc, wreq, wres, inMap, cb, log>>

\* channelConcurrentMap: ccm.requestCh <- request. A send on a closed channel
\* panics; a send on a full channel blocks.
SendUniform(t) ==
    /\ fatal = "none"
    /\ variant = "uniform"
    /\ pc[t] = "send"
    /\ IF closed
       THEN /\ fatal' = "send on closed channel"
            /\ UNCHANGED <<pc, requestCh>>
       ELSE /\ Len(requestCh) < RequestChCap
            /\ requestCh' = Append(requestCh, [task |-> t, req |-> req[t]])
            /\ pc' = [pc EXCEPT ![t] = "sent"]
            /\ UNCHANGED fatal
    /\ UNCHANGED <<variant, storage, req, result, calls, closed, wpc, wreq, wres, inMap, cb, log>>

\* A method that returns right after its send, without reading its reply channel.
AwaitReplySkipped(t) ==
    /\ fatal = "none"
    /\ pc[t] = "sent"
    /\ pc' = [pc EXCEPT ![t] = "idle"]
    /\ UNCHANGED <<variant, storage, req, result, calls, requestCh, closed,
                   wpc, wreq, wres, inMap, fatal, cb, log>>

\* The send has completed; the task reaches the receive on its reply channel.
AwaitReply(t) ==
    /\ fatal = "none"
    /\ pc[t] = "sent"
    /\ pc' = [pc EXCEPT ![t] = "recv"]
    /\ UNCHANGED <<variant, storage, req, result, calls, requestCh, closed,
                   wpc, wreq, wres, inMap, fatal, cb, log>>

\* A Close that does nothing when the channel is already closed.
CloseIdempotent(t) ==
    /\ fatal = "none"
    /\ variant = "uniform"
    /\ pc[t] = "idle"
    /\ calls' = [calls EXCEPT ![t] = @ + 1]
    /\ closed' = TRUE
    /\ UNCHANGED <<variant, storage, pc, req, result, requestCh, wpc, wreq, wres, inMap,
                   fatal, cb, log>>

\* ccm.Close(): close(ccm.requestCh); closing a closed channel panics.
Close(t) ==
    /\ fatal = "none"
    /\ variant = "uniform"
    /\ pc[t] = "idle"
    /\ calls' = [calls EXCEPT ![t] = @ + 1]
    /\ IF closed
       THEN /\ fatal' = "close of closed channel"
            /\ UNCHANGED closed
       ELSE /\ closed' = TRUE
            /\ UNCHANGED fatal
    /\ UNCHANGED <<variant, storage, pc, req, result, requestCh, wpc, wreq, wres, inMap, cb, log>>

\* -------------------------------------------------------- worker side
\* A worker that does not look at ok and goes on receiving from the closed channel.
WorkerRecvUniformNoReturn ==
    /\ fatal = "none"
    /\ variant = "uniform"
    /\ WorkerAtSelect
    /\ IF requestCh # <<>>
       THEN /\ wreq' = Head(requestCh)
            /\ requestCh' = Tail(requestCh)
            /\ wpc' = "dispatch"
       ELSE /\ closed
            /\ UNCHANGED <<wpc, wreq, requestCh>>
    /\ UNCHANGED <<variant, storage, pc, req, result, calls, closed, wres, inMap, fatal, cb, log>>

\* A worker that returns as soon as it sees the channel closed, whatever is
\* still buffered.
WorkerRecvUniformDropsBuffered ==
    /\ fatal = "none"
    /\ variant = "uniform"
    /\ WorkerAtSelect
    /\ IF closed
       THEN /\ wpc' = "returned"
            /\ UNCHANGED <<wreq, requestCh>>
       ELSE /\ requestCh # <<>>
            /\ wreq' = Head(requestCh)
            /\ requestCh' = Tail(requestCh)
            /\ wpc' = "dispatch"
    /\ UNCHANGED <<variant, storage, pc, req, result, calls, closed, wres, inMap, fatal, cb, log>>

\* channelConcurrentMap.loopMap: request, ok := <-ccm.requestCh; if !ok { return }
WorkerRecvUniform ==
    /\ fatal = "none"
    /\ variant = "uniform"
    /\ WorkerAtSelect
    /\ IF requestCh # <<>>
       THEN /\ wreq' = Head(requestCh)
            /\ requestCh' = Tail(requestCh)
            /\ wpc' = "dispatch"
       ELSE /\ closed
            /\ wpc' = "returned"
            /\ UNCHANGED <<wreq, requestCh>>
    /\ UNCHANGED <<variant, storage, pc, req, result, calls, closed, wres, inMap, fatal, cb, log>>

\* A worker whose type switch has no default case: a request it has no case for
\* is dropped and the loop goes on.
WorkerBeginDrops ==
    /\ fatal = "none"
    /\ wpc = "dispatch"
    /\ IF variant = "uniform" /\ wreq.req.op \notin RecognizedOps
       THEN /\ wpc' = "select"
            /\ UNCHANGED <<fatal, inMap>>
       ELSE /\ wpc' = "exec"
            /\ inMap' = IF wreq.req.op = "accessMap" THEN inMap ELSE inMap \cup {wreq.task}
            /\ UNCHANGED fatal
    /\ UNCHANGED <<variant, storage, pc, req, result, calls, requestCh, closed, wreq, wres, cb, log>>

\* A worker that starts the storage call only once the sender waits at its receive.
WorkerBeginWaits ==
    /\ fatal = "none"
    /\ wpc = "dispatch"
    /\ pc[wreq.task] = "recv"
    /\ IF variant = "uniform" /\ wreq.req.op \notin RecognizedOps
       THEN /\ fatal' = "Unrecognized req type " \o wreq.req.op
            /\ UNCHANGED <<wpc, inMap>>
       ELSE /\ wpc' = "exec"
            /\ inMap' = IF wreq.req.op = "accessMap" THEN inMap ELSE inMap \cup {wreq.task}
            /\ UNCHANGED fatal
    /\ UNCHANGED <<variant, storage, pc, req, result, calls, requestCh, closed, wreq, wres, cb, log>>

\* The case matching the request is entered: the call into the underlying Map
\* starts (reading the field cm.storage is no Map call); an unmatched type panics
\* with fmt.Sprintf("Unrecognized req type %v", reflect.TypeOf(request)).
WorkerBegin ==
    /\ fatal = "none"
    /\ wpc = "dispatch"
    /\ IF variant = "uniform" /\ wreq.req.op \notin RecognizedOps
       THEN /\ fatal' = "Unrecognized req type " \o wreq.req.op
            /\ UNCHANGED <<wpc, inMap>>
       ELSE /\ wpc' = "exec"
            /\ inMap' = IF wreq.req.op = "accessMap" THEN inMap ELSE inMap \cup {wreq.task}
            /\ UNCHANGED fatal
    /\ UNCHANGED <<variant, storage, pc, req, result, calls, requestCh, closed, wreq, wres, cb, log>>

\* A worker that may run the storage call of a request again before replying.
WorkerEndRetries(keep) ==
    /\ fatal = "none"
    /\ wpc = "exec"
    /\ storage' = Dispatch(variant, storage, wreq.req).storage
    /\ wres' = Dispatch(variant, storage, wreq.req).reply
    /\ \/ wpc' = "reply" /\ inMap' = inMap \ {wreq.task}
       \/ wpc' = "exec" /\ inMap' = inMap
    /\ log' = IF keep
              THEN Append(log, [task |-> wreq.task, idx |-> calls[wreq.task],
                                req |-> wreq.req, before |-> storage, reply |-> wres'])
              ELSE log
    /\ UNCHANGED <<variant, pc, req, result, calls, requestCh, closed, wreq, fatal, cb>>

\* The call into the underlying Map returns. The history is kept when keep holds.
WorkerEnd(keep) ==
    /\ fatal = "none"
    /\ wpc = "exec"
    /\ storage' = Dispatch(variant, storage, wreq.req).storage
    /\ wres' = Dispatch(variant, storage, wreq.req).reply
    /\ inMap' = inMap \ {wreq.task}
    /\ wpc' = "reply"
    /\ log' = IF keep
              THEN Append(log, [task |-> wreq.task, idx |-> calls[wreq.task],
                                req |-> wreq.req, before |-> storage, reply |-> wres'])
              ELSE log
    /\ UNCHANGED <<variant, pc, req, result, calls, requestCh, closed, wreq, fatal, cb>>

\* A worker that writes the reply to whichever task is waiting for one.
WorkerReplyCrossed ==
    /\ fatal = "none"
    /\ wpc = "reply"
    /\ \E u \in Tasks :
          /\ pc[u] = "recv"
          /\ result' = [result EXCEPT ![u] = Return(wreq.req, wres)]
          /\ pc' = [pc EXCEPT ![u] = IF u \in AsyncTasks THEN "callback" ELSE "idle"]
    /\ wpc' = "select"
    /\ wreq' = [task |-> Nil, req |-> NoReq]
    /\ wres' = NoReply
    /\ UNCHANGED <<variant, storage, req, calls, requestCh, closed, inMap, fatal, cb, log>>

\* A worker whose clear case lacks the write to the reply channel.
WorkerReplyForgetsClear ==
    /\ fatal = "none"
    /\ wpc = "reply"
    /\ IF wreq.req.op = "clear"
       THEN UNCHANGED <<result, pc>>
       ELSE /\ pc[wreq.task] = "recv"
            /\ result' = [result EXCEPT ![wreq.task] = Return(wreq.req, wres)]
            /\ pc' = [pc EXCEPT ![wreq.task] =
                          IF wreq.task \in AsyncTasks THEN "callback" ELSE "idle"]
    /\ wpc' = "select"
    /\ wreq' = [task |-> Nil, req |-> NoReq]
    /\ wres' = NoReply
    /\ UNCHANGED <<variant, storage, req, calls, requestCh, closed, inMap, fatal, cb, log>>

\* replyCh <- value meets the caller's receive (unbuffered); the method returns
\* (a spawned task goes on to its callback) and the worker loops.
WorkerReply ==
    /\ fatal = "none"
    /\ wpc = "reply"
    /\ pc[wreq.task] = "recv"
    /\ result' = [result EXCEPT ![wreq.task] = Return(wreq.req, wres)]
    /\ pc' = [pc EXCEPT ![wreq.task] = IF wreq.task \in AsyncTasks THEN "callback" ELSE "idle"]
    /\ wpc' = "select"
    /\ wreq' = [task |-> Nil, req |-> NoReq]
    /\ wres' = NoReply
    /\ UNCHANGED <<variant, storage, req, calls, requestCh, closed, inMap, fatal, cb, log>>

Worker(keep) == WorkerBegin \/ WorkerEnd(keep) \/ WorkerReply

RECURSIVE SumCalls(_)
SumCalls(S) ==
    IF S = {} THEN 0
    ELSE LET t == CHOOSE x \in S : TRUE IN calls[t] + SumCalls(S \ {t})

\* The callers between them start at most MaxCalls calls.
MayCall == SumCalls(Callers) < MaxCalls

\* ---------------------------------------------------- specifications
\* Both coordinators, every synchronous operation and Close, concurrent callers.
Init == InitWith({"typed", "uniform"})

Next ==
    \/ MayCall /\ \E t \in Callers : \E r \in Requests(variant) : Start(t, r)
    \/ MayCall /\ \E t \in Callers : Close(t)
    \/ \E t \in Tasks : SendTyped(t)
    \/ \E t \in Tasks : SendUniform(t)
    \/ \E t \in Tasks : AwaitReply(t)
    \/ WorkerRecvUniform
    \/ Worker(FALSE)

Spec == Init /\ [][Next]_vars

\* One caller issuing Set, Get and Delete one after the other.
SeqLen == 3

SeqRequests(v) == {r \in Requests(v) : r.api \in {"Set", "Get", "Delete"}}

NextSeq ==
    \/ calls[1] < SeqLen /\ \E r \in SeqRequests(variant) : Start(1, r)
    \/ SendTyped(1)
    \/ SendUniform(1)
    \/ AwaitReply(1)
    \/ WorkerRecvUniform
    \/ Worker(TRUE)

SpecSeq == Init /\ [][NextSeq]_vars

\* Concurrent callers setting and deleting the same key again and again.
RaceCalls == 3

RaceKey == 1

RaceRequests(v) == {r \in Requests(v) : r.api \in {"Set", "Delete"} /\ r.key = RaceKey}

NextRace ==
    \/ SumCalls(Callers) < RaceCalls /\
          \E t \in Callers : \E r \in RaceRequests(variant) : Start(t, r)
    \/ \E t \in Callers : SendTyped(t)
    \/ \E t \in Callers : SendUniform(t)
    \/ \E t \in Callers : AwaitReply(t)
    \/ WorkerRecvUniform
    \/ Worker(TRUE)

SpecRace == Init /\ [][NextRace]_vars

\* Concurrent callers each setting SetsPerCaller keys of their own; when every Set
\* has returned, callers read the length and the keys back.
SetsPerCaller == 2

DisjointKey(t, i) == (t - 1) * SetsPerCaller + i

DisjointKeys == {DisjointKey(t, i) : t \in Callers, i \in 1..SetsPerCaller}

ValueFor(k) == ((k + 1) % NumValues) + 1

SetsReturned ==
    \A t \in Callers : calls[t] > SetsPerCaller \/ (calls[t] = SetsPerCaller /\ pc[t] = "idle")

ReadBack == {Req("Length", "len", Nil, Nil)} \cup {Req("Get", "get", k, Nil) : k \in DisjointKeys}

NextDisjoint ==
    \/ \E t \in Callers :
          /\ calls[t] < SetsPerCaller
          /\ Start(t, Req("Set", "set", DisjointKey(t, calls[t] + 1),
                          ValueFor(DisjointKey(t, calls[t] + 1))))
    \/ SetsReturned /\ \E t \in Callers : \E r \in ReadBack :
          calls[t] = SetsPerCaller /\ Start(t, r)
    \/ \E t \in Callers : SendTyped(t)
    \/ \E t \in Callers : SendUniform(t)
    \/ \E t \in Callers : AwaitReply(t)
    \/ WorkerRecvUniform
    \/ Worker(FALSE)

SpecDisjoint == Init /\ [][NextDisjoint]_vars

\* One caller brings the Map to some state with PreCalls Sets and Deletes, then
\* calls Clear, Length, Clear, Length.
PreCalls == 2

ClearProgram(n) ==
    IF n \in {PreCalls + 1, PreCalls + 3}
    THEN Req("Clear", "clear", Nil, Nil)
    ELSE Req("Length", "len", Nil, Nil)

NextClear ==
    \/ calls[1] < PreCalls /\
          \E r \in {q \in Requests(variant) : q.api \in {"Set", "Delete"}} : Start(1, r)
    \/ calls[1] >= PreCalls /\ calls[1] < PreCalls + 4 /\ Start(1, ClearProgram(calls[1] + 1))
    \/ SendTyped(1)
    \/ SendUniform(1)
    \/ AwaitReply(1)
    \/ WorkerRecvUniform
    \/ Worker(TRUE)

SpecClear == Init /\ [][NextClear]_vars

\* The request-typed coordinator used through its XAsync methods only. The tasks
\* are spawned in the order of their names.
InitTyped == InitWith({"typed"})

Unborn == {a \in AsyncTasks : pc[a] = "unborn"}

NextAsyncTask == CHOOSE a \in Unborn : \A b \in Unborn : a <= b

NextAsync ==
    \/ Unborn # {} /\ \E r \in TypedRequests : AsyncCall(1, NextAsyncTask, r)
    \/ \E a \in AsyncTasks : SendTyped(a)
    \/ \E a \in AsyncTasks : AwaitReply(a)
    \/ \E a \in AsyncTasks : Callback(a)
    \/ Worker(FALSE)

SpecAsync == InitTyped /\ [][NextAsync]_vars

\* SetAsync only, on keys 1..NumAsync, under fair scheduling: the worker and every
\* task that can run keep running, and a sender that is ready again and again is
\* eventually received from (senders queue on the channel in arrival order).
AsyncKeys == 1..NumAsync

SetAsyncRequests == {Req("Set", "set", k, ValueFor(k)) : k \in AsyncKeys}

NextSetAsync ==
    \/ Unborn # {} /\ \E r \in SetAsyncRequests : AsyncCall(1, NextAsyncTask, r)
    \/ \E a \in AsyncTasks : SendTyped(a)
    \/ \E a \in AsyncTasks : AwaitReply(a)
    \/ \E a \in AsyncTasks : Callback(a)
    \/ Worker(TRUE)

FairSetAsync ==
    /\ WF_vars(Worker(TRUE))
    /\ \A a \in AsyncTasks :
          SF_vars(SendTyped(a)) /\ WF_vars(AwaitReply(a)) /\ WF_vars(Callback(a))

SpecSetAsync == InitTyped /\ [][NextSetAsync]_vars /\ FairSetAsync

\* The uniform-message coordinator with Set, Get and Close, under fair scheduling
\* of the worker and of callers on their way to their receive; callers are free
\* to stop calling.
InitUniform == InitWith({"uniform"})

CloseRequests ==
    {Req("Set", "set", k, ValueFor(k)) : k \in Keys} \cup {Req("Get", "get", k, Nil) : k \in Keys}

NextClose ==
    \/ MayCall /\ \E t \in Callers : \E r \in CloseRequests : Start(t, r)
    \/ MayCall /\ \E t \in Callers : Close(t)
    \/ \E t \in Callers : SendUniform(t)
    \/ \E t \in Callers : AwaitReply(t)
    \/ WorkerRecvUniform
    \/ Worker(FALSE)

FairClose ==
    /\ WF_vars(WorkerRecvUniform)
    /\ WF_vars(Worker(FALSE))
    /\ \A t \in Callers : WF_vars(AwaitReply(t))

SpecClose == InitUniform /\ [][NextClose]_vars /\ FairClose

\* ------------------------------------------------- reference execution
\* The method r.api called directly on a single-threaded Map m.
RefCall(v, m, r) ==
    CASE r.api = "Set" ->
           IF v = "typed"
           THEN [storage |-> MapSetLen(m, r.key, r.val).storage,
                 ret |-> IntR(MapSetLen(m, r.key, r.val).ret)]
           ELSE [storage |-> MapSetPrev(m, r.key, r.val).storage,
                 ret |-> FoundR(MapSetPrev(m, r.key, r.val).ret)]
      [] r.api = "Delete" ->
           IF v = "typed"
           THEN [storage |-> MapDeleteLen(m, r.key).storage,
                 ret |-> IntR(MapDeleteLen(m, r.key).ret)]
           ELSE [storage |-> MapDeletePrev(m, r.key).storage,
                 ret |-> FoundR(MapDeletePrev(m, r.key).ret)]
      [] r.api = "Get" -> [storage |-> m, ret |-> FoundR(MapGet(m, r.key))]
      [] r.api = "Contains" -> [storage |-> m, ret |-> BoolR(MapContains(m, r.key))]
      [] r.api = "Length" -> [storage |-> m, ret |-> IntR(MapLength(m))]
      [] r.api = "IsEmpty" -> [storage |-> m, ret |-> BoolR(MapLength(m) = 0)]
      [] r.api = "Keys" -> [storage |-> m, ret |-> KeysR(MapKeys(m))]
      [] r.api = "String" -> [storage |-> m, ret |-> StringR(MapString(m))]
      [] r.api = "Clear" -> [storage |-> MapClear(m), ret |-> DoneR]
      [] OTHER -> [storage |-> m, ret |-> NoReply]

\* The reference Map after the first n logged requests, from the empty Map.
RECURSIVE RefState(_)
RefState(n) ==
    IF n = 0 THEN EmptyMap ELSE RefCall(variant, RefState(n - 1), log[n].req).storage

\* --------------------------------------------------------------- C1
\* C1: in both coordinators at most one request is executing against the
\* underlying Map at any time, and it is the one the worker is serving, whose
\* caller is waiting for the reply; no caller task ever runs a Map operation itself.
C1_OneAtATime ==
    /\ Cardinality(inMap) <= 1
    /\ inMap # {} => /\ wpc = "exec"
                     /\ inMap = {wreq.task}
                     /\ pc[wreq.task] \in {"sent", "recv"}

\* A request executes while another caller stands at its send.
C1_Witness ==
    \E t \in Tasks : \E u \in Tasks \ {t} : inMap = {t} /\ pc[u] = "send"

\* --------------------------------------------------------------- C2
\* C2: for a single caller issuing Set, Get and Delete synchronously, the worker
\* applies the requests in the order sent, each call returns what a reference
\* single-threaded Map returns for it, and the Map contents after each call are
\* the reference's.
C2_MatchesReference ==
    LET n == Len(log) IN
    /\ \A i \in 1..n : log[i].task = 1 /\ log[i].idx = i
    /\ n = calls[1] /\ n > 0 => log[n].req = req[1]
    /\ storage = RefState(n)
    /\ pc[1] = "idle" /\ calls[1] > 0 =>
          /\ n = calls[1]
          /\ result[1] = RefCall(variant, RefState(n - 1), req[1]).ret

\* Set, then Delete, then a Get that reports the key missing.
C2_Witness ==
    /\ pc[1] = "idle" /\ calls[1] = 3 /\ Len(log) = 3
    /\ log[1].req.api = "Set" /\ log[2].req.api = "Delete"
    /\ req[1].api = "Get" /\ result[1] = FoundR([element |-> Nil, found |-> FALSE])

\* --------------------------------------------------------------- C3
\* C3: with concurrent callers setting and deleting one key, the order in which
\* the worker applied the requests is a sequential ordering that explains
\* everything: each request was applied whole to the state its predecessors left
\* (no effect of another request in between), each caller's requests appear in
\* its own call order, every result returned is the one the reference Map gives
\* at that place in the ordering, and the Map is the reference's final state.
C3_Linearizable ==
    LET n == Len(log) IN
    /\ storage = RefState(n)
    /\ \A i \in 1..n :
          /\ log[i].before = RefState(i - 1)
          /\ log[i].reply = RefCall(variant, RefState(i - 1), log[i].req).ret
          /\ log[i].idx <= calls[log[i].task]
    /\ \A i \in 1..n : \A j \in (i + 1)..n :
          log[i].task = log[j].task => log[i].idx < log[j].idx
    /\ \A t \in Callers :
          pc[t] = "idle" /\ calls[t] > 0 =>
            \E i \in 1..n : /\ log[i].task = t /\ log[i].idx = calls[t]
                            /\ log[i].req = req[t]
                            /\ result[t] = log[i].reply

\* Two callers' requests on the key were applied alternately and all have returned.
C3_Witness ==
    /\ Len(log) = 3
    /\ log[1].task = 1 /\ log[2].task = 2 /\ log[3].task = 1
    /\ log[1].req.api = "Set" /\ log[2].req.api = "Delete" /\ log[3].req.api = "Set"
    /\ \A t \in Callers : pc[t] = "idle"

\* --------------------------------------------------------------- C4
\* C4: once the NumCallers concurrent callers have each had SetsPerCaller Sets on
\* keys of their own return, against a coordinator that started empty, Length()
\* returns NumCallers * SetsPerCaller and Get(k) returns (the value written to
\* k, true) for every key written.
C4_AllWritten ==
    \A t \in Callers :
      pc[t] = "idle" /\ calls[t] = SetsPerCaller + 1 =>
        /\ req[t].api = "Length" => result[t] = IntR(NumCallers * SetsPerCaller)
        /\ req[t].api = "Get" =>
              result[t] = FoundR([element |-> ValueFor(req[t].key), found |-> TRUE])

\* One caller has read the length back and another a key the first one wrote.
C4_Witness ==
    \E t \in Callers : \E u \in Callers \ {t} :
      /\ pc[t] = "idle" /\ calls[t] = SetsPerCaller + 1 /\ req[t].api = "Length"
      /\ result[t] = IntR(NumCallers * SetsPerCaller)
      /\ pc[u] = "idle" /\ calls[u] = SetsPerCaller + 1 /\ req[u].api = "Get"
      /\ req[u].key = DisjointKey(t, SetsPerCaller)
      /\ result[u] = FoundR([element |-> ValueFor(req[u].key), found |-> TRUE])

\* --------------------------------------------------------------- C5
\* C5: from any Map state the caller's Sets and Deletes reach, Clear() followed
\* by Length() returns 0, and a second Clear() followed by Length() returns 0 again.
C5_ClearThenLength ==
    pc[1] = "idle" /\ calls[1] \in {PreCalls + 2, PreCalls + 4} =>
      /\ req[1].api = "Length"
      /\ result[1] = IntR(0)

\* The second Length has returned 0 and the first Clear found the Map non-empty.
C5_Witness ==
    /\ pc[1] = "idle" /\ calls[1] = PreCalls + 4 /\ result[1] = IntR(0)
    /\ Len(log) = PreCalls + 4
    /\ log[PreCalls + 1].req.api = "Clear" /\ log[PreCalls + 1].before # EmptyMap
    /\ log[PreCalls + 3].req.api = "Clear" /\ log[PreCalls + 3].before = EmptyMap

\* --------------------------------------------------------------- C6
\* C6: every SetAsync(k, v, cb) eventually invokes cb, never more than once, and
\* with the value Set(k, v) returns on the Map state the worker held when it
\* served the request.
C6_CallbackValue ==
    \A a \in AsyncTasks :
      /\ Len(cb[a]) <= 1
      /\ Len(cb[a]) = 1 =>
            \E i \in 1..Len(log) :
              /\ log[i].task = a /\ log[i].req = req[a]
              /\ cb[a][1] = RefCall("typed", log[i].before, req[a]).ret

C6_SetAsyncCallsBack ==
    /\ []C6_CallbackValue
    /\ \A a \in AsyncTasks : (pc[a] # "unborn") ~> (Len(cb[a]) = 1)

\* Two SetAsync calls on different keys have both called back, with lengths 1 and 2.
C6_Witness ==
    \E a \in AsyncTasks : \E b \in AsyncTasks :
      cb[a] = <<IntR(1)>> /\ cb[b] = <<IntR(2)>> /\ req[a].key # req[b].key

\* --------------------------------------------------------------- C7
\* C7: a task calling the XAsync methods never waits for the worker: it is never
\* at a send or a receive of its own, and whatever the worker and the spawned
\* senders are doing it can make its next XAsync call.
C7_CallerNeverWaits ==
    \A c \in Callers :
      /\ pc[c] = "idle"
      /\ Unborn # {} => \A r \in TypedRequests : ENABLED AsyncCall(c, NextAsyncTask, r)

\* A caller has made two XAsync calls; the worker is inside the Map for the first
\* and the second spawned task is blocked at its send.
C7_Witness ==
    \E c \in Callers : \E a \in AsyncTasks : \E b \in AsyncTasks :
      /\ calls[c] = 2 /\ pc[c] = "idle"
      /\ wpc = "exec" /\ wreq.task = a /\ pc[b] = "send"

\* --------------------------------------------------------------- C8
\* C8 as stated: after Close() the worker terminates, and no request is
\* dispatched against the underlying Map once the channel is closed.
C8_NoDispatchAfterClose ==
    /\ closed ~> (wpc = "returned" \/ fatal # "none")
    /\ [][closed => ~(wpc = "dispatch" /\ wpc' = "exec")]_vars

\* C8 amended: after Close() nothing more enters the channel; the worker still
\* serves the request it holds and the one buffered before the Close, and then
\* its loopMap returns for good (unless a panic ends the process first), with
\* the channel closed and drained.
C8_DrainsThenReturns ==
    /\ closed ~> (wpc = "returned" \/ fatal # "none")
    /\ [][closed => Len(requestCh') <= Len(requestCh)]_vars
    /\ [][wpc = "returned" => wpc' = "returned" /\ storage' = storage]_vars
    /\ [](wpc = "returned" => closed /\ requestCh = <<>> /\ inMap = {})

\* The channel is closed and the worker is inside the Map for a request sent before.
C8_Witness == closed /\ wpc = "exec" /\ fatal = "none"

\* --------------------------------------------------------------- C9
\* C9: once the channel is closed, a task standing at the send of any operation
\* is not blocked, and the only thing its send can do is panic with "send on
\* closed channel": the request is never enqueued, so the task never waits on a
\* reply channel.
C9_SendAfterClosePanics ==
    \A t \in Tasks :
      variant = "uniform" /\ closed /\ pc[t] = "send" /\ fatal = "none" =>
        /\ ENABLED SendUniform(t)
        /\ ~ENABLED (SendUniform(t) /\ fatal' # "send on closed channel")
        /\ ~ENABLED (SendUniform(t) /\ (pc'[t] # "send" \/ requestCh' # requestCh))

\* A Get whose send came after the Close has panicked at the send.
C9_Witness ==
    \E t \in Tasks :
      /\ closed /\ fatal = "send on closed channel"
      /\ pc[t] = "send" /\ req[t].api = "Get"

\* -------------------------------------------------------------- C10
\* C10: a Close() on the open channel closes it without a panic; a Close() on
\* the closed channel panics with "close of closed channel". (A Close step is
\* the one that counts a call of a task that stays idle.)
C10_SecondClosePanics ==
    [][\A t \in Callers :
         variant = "uniform" /\ pc[t] = "idle" /\ pc'[t] = "idle" /\ calls'[t] = calls[t] + 1 =>
           IF closed THEN fatal' = "close of closed channel" /\ closed'
           ELSE closed' /\ fatal' = "none"]_vars

\* The second Close has panicked.
C10_Witness == closed /\ fatal = "close of closed channel"

\* -------------------------------------------------------------- C11
\* Concurrent callers issuing Set, Get and Clear on the contended key; nobody
\* calls Close and every message is of a recognized kind, so the worker stays alive.
LiveRequests(v) ==
    {r \in Requests(v) : /\ r.api \in {"Set", "Get", "Clear"}
                         /\ r.key \in {Nil, RaceKey} /\ r.val \in {Nil, ValueFor(RaceKey)}}

NextLive ==
    \/ MayCall /\ \E t \in Callers : \E r \in LiveRequests(variant) : Start(t, r)
    \/ \E t \in Callers : SendTyped(t)
    \/ \E t \in Callers : SendUniform(t)
    \/ \E t \in Callers : AwaitReply(t)
    \/ WorkerRecvUniform
    \/ Worker(FALSE)

\* The worker goroutine and every caller goroutine that can run keep running; a
\* sender that is ready again and again is eventually received from (senders
\* wait on a channel in arrival order, select picks among ready cases at random).
FairLive ==
    /\ WF_vars(WorkerRecvUniform)
    /\ WF_vars(Worker(FALSE))
    /\ \A t \in Callers :
          SF_vars(SendTyped(t)) /\ SF_vars(SendUniform(t)) /\ WF_vars(AwaitReply(t))

SpecLive == Init /\ [][NextLive]_vars /\ FairLive

InCall(t) == pc[t] \in {"send", "sent", "recv"}

\* C11: with the worker alive (no Close, no unrecognized message), every caller
\* that has started a synchronous operation eventually has it return with a
\* reply, whatever the other callers do: no caller stays blocked at its send or
\* at the receive on its reply channel, and meanwhile nothing panics.
C11_EveryCallReturns ==
    /\ \A t \in Callers : InCall(t) ~> (pc[t] = "idle" /\ result[t] # NoReply)
    /\ [](closed = FALSE /\ fatal = "none" /\ wpc # "returned")

\* Two callers are in a call at once: one is being served, the other is blocked
\* at its send on the unbuffered channel behind it.
C11_Witness ==
    \E t \in Callers : \E u \in Callers \ {t} :
      /\ variant = "typed" /\ wreq.task = t /\ wpc = "exec" /\ pc[t] = "recv"
      /\ pc[u] = "send"

\* -------------------------------------------------------------- C12
\* Concurrent callers issuing Sets and Gets; every request carries the number of
\* the call it belongs to (a Set as its value, a Get as its key), so that the
\* history shows in which order each caller sent what the worker applied.
OrderRequests(n) == {Req("Set", "set", RaceKey, n), Req("Get", "get", n, Nil)}

Ordinal(r) == IF r.op = "set" THEN r.val ELSE r.key

NextOrder ==
    \/ SumCalls(Callers) < RaceCalls /\
          \E t \in Callers : \E r \in OrderRequests(calls[t] + 1) : Start(t, r)
    \/ \E t \in Callers : SendTyped(t)
    \/ \E t \in Callers : SendUniform(t)
    \/ \E t \in Callers : AwaitReply(t)
    \/ WorkerRecvUniform
    \/ Worker(TRUE)

SpecOrder == Init /\ [][NextOrder]_vars

\* The places in the history of the requests of task t.
Applied(t) == {i \in 1..Len(log) : log[i].task = t}

\* C12: of two requests of the same kind sent by one caller, the worker applies
\* the one sent first before the other; the handoff is strict: when a caller
\* sends a request, every request it sent before has already been applied, and
\* each request is applied as the call it was sent in.
C12_SendOrderServed ==
    /\ \A i \in 1..Len(log) : \A j \in (i + 1)..Len(log) :
          log[i].task = log[j].task /\ log[i].req.op = log[j].req.op =>
            Ordinal(log[i].req) < Ordinal(log[j].req)
    /\ \A i \in 1..Len(log) : log[i].idx = Ordinal(log[i].req)
    /\ \A t \in Callers : InCall(t) => Cardinality(Applied(t)) >= calls[t] - 1

\* A caller's first and second Set were applied first and third, another
\* caller's request in between.
C12_Witness ==
    /\ Len(log) = 3
    /\ log[1].task = 1 /\ log[2].task = 2 /\ log[3].task = 1
    /\ log[1].req = Req("Set", "set", RaceKey, 1)
    /\ log[3].req = Req("Set", "set", RaceKey, 2)

\* -------------------------------------------------------------- C13
\* Concurrent callers issuing every synchronous operation on the contended key,
\* each writing a value of its own, with the history kept.
AllRequests(v, t) ==
    {r \in Requests(v) : r.key \in {Nil, RaceKey} /\ r.val \in {Nil, ValueFor(t)}}

NextAll ==
    \/ MayCall /\ \E t \in Callers : \E r \in AllRequests(variant, t) : Start(t, r)
    \/ \E t \in Callers : SendTyped(t)
    \/ \E t \in Callers : SendUniform(t)
    \/ \E t \in Callers : AwaitReply(t)
    \/ WorkerRecvUniform
    \/ Worker(TRUE)

SpecAll == Init /\ [][NextAll]_vars

\* The worker holds a request of task t to which it has not yet replied.
Serving(t) == wreq.task = t /\ wpc \in {"dispatch", "exec", "reply"}

\* Exactly one storage operation per request: no call is applied twice, a call
\* that has returned was applied once, and a call in progress was applied at
\* most once, and only once the worker stands at the write of its reply.
C13_AppliedOnce ==
    /\ \A i \in 1..Len(log) : \A j \in (i + 1)..Len(log) :
          ~(log[i].task = log[j].task /\ log[i].idx = log[j].idx)
    /\ \A t \in Callers :
          /\ pc[t] = "idle" => Cardinality(Applied(t)) = calls[t]
          /\ InCall(t) =>
                Cardinality(Applied(t)) =
                  IF wreq.task = t /\ wpc = "reply" THEN calls[t] ELSE calls[t] - 1

\* The reply channel belongs to one call and has no buffer: the worker leaves a
\* request only by the write to its reply channel, the write is one step with
\* the receive of the task that sent this request in the call it is still in,
\* and a task receives only what the worker writes for the request it holds.
C13_RepliedOnce ==
    /\ Serving(wreq.task) /\ ~Serving(wreq.task)' =>
          /\ wpc = "reply" /\ wpc' = "select"
          /\ pc[wreq.task] = "recv" /\ pc'[wreq.task] = "idle"
          /\ req[wreq.task] = wreq.req
          /\ log[Len(log)].task = wreq.task /\ log[Len(log)].idx = calls[wreq.task]
          /\ result'[wreq.task] = Return(wreq.req, log[Len(log)].reply)
    /\ \A t \in Callers :
          pc[t] = "recv" /\ pc'[t] # "recv" => Serving(t) /\ wpc = "reply" /\ ~Serving(t)'
    /\ \A t \in Callers :
          result'[t] # result[t] =>
            \/ (pc[t] = "idle" /\ result'[t] = NoReply)
            \/ (pc[t] = "recv" /\ pc'[t] = "idle")

\* C13: every request has one reply channel of its own call, without a buffer;
\* the worker writes to it exactly once per request it takes, after applying
\* exactly one storage operation for it: nothing is applied or answered twice,
\* nothing taken is left unanswered when the worker moves on.
C13_ExactlyOnce == []C13_AppliedOnce /\ [][C13_RepliedOnce]_vars

\* One caller's call has returned, applied once; the worker has applied another
\* caller's request and stands at the write to its reply channel.
C13_Witness ==
    \E t \in Callers : \E u \in Callers \ {t} :
      /\ calls[t] = 1 /\ pc[t] = "idle" /\ Cardinality(Applied(t)) = 1
      /\ result[t] # NoReply
      /\ wreq.task = u /\ wpc = "reply" /\ pc[u] = "recv" /\ Cardinality(Applied(u)) = 1

\* -------------------------------------------------------------- C14
\* C14 as stated: whenever the worker is not waiting to receive a request, it
\* can take a step without a caller taking one first, the write to the reply
\* channel included.
C14_WorkerNeverWaitsOnCaller ==
    fatal = "none" /\ wpc \in {"dispatch", "exec", "reply"} => ENABLED Worker(TRUE)

\* C14 amended: between receiving a request and the write of its reply the
\* worker can always step; at the write to the reply channel, which has no
\* buffer, it can step if the task that sent the request is at its receive, and
\* otherwise it waits for exactly that task, which has completed its send, can
\* take its step to the receive, and can do nothing else.
C14_WaitsOnlyForReceiver ==
    fatal = "none" =>
      /\ wpc \in {"dispatch", "exec"} => ENABLED Worker(TRUE)
      /\ wpc = "reply" =>
            /\ pc[wreq.task] \in {"sent", "recv"}
            /\ pc[wreq.task] = "recv" => ENABLED WorkerReply
            /\ pc[wreq.task] = "sent" =>
                  /\ ~ENABLED Worker(TRUE)
                  /\ ENABLED AwaitReply(wreq.task)
                  /\ ~ENABLED (\E r \in AllRequests(variant, wreq.task) : Start(wreq.task, r))
                  /\ ~ENABLED (SendTyped(wreq.task) \/ SendUniform(wreq.task))

\* The worker stands at the write to the reply channel and the task that sent
\* the request has not reached its receive.
C14_Witness == fatal = "none" /\ wpc = "reply" /\ pc[wreq.task] = "sent"

\* -------------------------------------------------------------- C15
\* The request-typed coordinator with callers that fetch the underlying Map with
\* UnderlyingMap() and read the contended key through it, next to callers that
\* Set, Delete and Clear through the coordinator.
MutatingOps == {"clear", "delete", "set"}

RawRequests(t) ==
    {r \in AllRequests("typed", t) : r.api = "UnderlyingMap" \/ r.op \in MutatingOps}

\* The task holds the Map that UnderlyingMap() returned and calls Get(k) on it
\* itself. The request remembers how long the history was when the read began.
RawBegin(t, k) ==
    /\ fatal = "none"
    /\ variant = "typed"
    /\ pc[t] = "idle"
    /\ result[t] = MapR
    /\ pc' = [pc EXCEPT ![t] = "raw"]
    /\ req' = [req EXCEPT ![t] = Req("raw Get", "get", k, Len(log))]
    /\ calls' = [calls EXCEPT ![t] = @ + 1]
    /\ inMap' = inMap \cup {t}
    /\ UNCHANGED <<variant, storage, result, requestCh, closed, wpc, wreq, wres, fatal, cb, log>>

\* The worker is inside a storage call that writes.
WorkerWriting == wpc = "exec" /\ wreq.req.op \in MutatingOps

\* The Map states that writes of the worker overlapping t's read went through.
RacedStates(t) ==
    {log[i].before : i \in {j \in (req[t].val + 1)..Len(log) : log[j].req.op \in MutatingOps}}
    \cup (IF WorkerWriting THEN {storage, Dispatch(variant, storage, wreq.req).storage} ELSE {})

\* The read returns. Without an overlapping write it sees the worker's Map as it
\* is; with one it is a data race: it sees the Map before or after any of the
\* overlapping writes, or the runtime stops the process.
RawEnd(t) ==
    /\ fatal = "none"
    /\ pc[t] = "raw"
    /\ IF RacedStates(t) = {}
       THEN /\ result' = [result EXCEPT ![t] = FoundR(MapGet(storage, req[t].key))]
            /\ pc' = [pc EXCEPT ![t] = "idle"]
            /\ inMap' = inMap \ {t}
            /\ UNCHANGED fatal
       ELSE \/ /\ \E m \in RacedStates(t) \cup {storage} :
                     result' = [result EXCEPT ![t] = FoundR(MapGet(m, req[t].key))]
               /\ pc' = [pc EXCEPT ![t] = "idle"]
               /\ inMap' = inMap \ {t}
               /\ UNCHANGED fatal
            \/ /\ fatal' = "concurrent map read and map write"
               /\ UNCHANGED <<result, pc, inMap>>
    /\ UNCHANGED <<variant, storage, req, calls, requestCh, closed, wpc, wreq, wres, cb, log>>

NextRaw ==
    \/ SumCalls(Callers) < RaceCalls /\
          \E t \in Callers : \E r \in RawRequests(t) : Start(t, r)
    \/ SumCalls(Callers) < RaceCalls /\ \E t \in Callers : RawBegin(t, RaceKey)
    \/ \E t \in Callers : RawEnd(t)
    \/ \E t \in Callers : SendTyped(t)
    \/ \E t \in Callers : AwaitReply(t)
    \/ Worker(TRUE)

SpecRaw == InitTyped /\ [][NextRaw]_vars

\* UnderlyingMap() returns the very Map the worker keeps using, and a task
\* holding it can start reading it whatever the worker is doing.
C15_HoldsLiveMap ==
    \A t \in Callers :
      /\ pc[t] = "idle" /\ req[t].api = "UnderlyingMap" => result[t] = MapR
      /\ pc[t] = "idle" /\ result[t] = MapR /\ fatal = "none" => ENABLED RawBegin(t, RaceKey)
      /\ pc[t] = "raw" => t \in inMap

\* A read through the returned Map that no write overlaps sees the worker's Map
\* as it is at that moment, the writes made since UnderlyingMap() returned included.
C15_ReadsWorkersMap ==
    \A t \in Callers :
      pc[t] = "raw" /\ pc'[t] = "idle" /\ RacedStates(t) = {} =>
        result'[t] = FoundR(MapGet(storage, req[t].key))

\* C15: UnderlyingMap() returns the live Map of the worker, so reads through it
\* are not serialized with the worker's operations: a task can be inside that
\* Map while the worker is writing it (C15_Witness is such a state).
C15_RawAccessBypassesWorker == []C15_HoldsLiveMap /\ [][C15_ReadsWorkersMap]_vars

\* A task reads the Map it got from UnderlyingMap() while the worker is inside a
\* Set on the same Map for another task.
C15_Witness ==
    \E t \in Callers : \E u \in Callers \ {t} :
      /\ pc[t] = "raw" /\ WorkerWriting /\ wreq.task = u /\ wreq.req.api = "Set"
      /\ wreq.req.key = req[t].key /\ inMap = {t, u}

\* -------------------------------------------------------------- C16
\* C16: the shared channel of the uniform-message coordinator never holds more
\* than one request that the worker has not taken. A sender finding it empty
\* enqueues without waiting, whatever the worker is doing, also while the worker
\* is serving the previous request; a sender finding it full cannot send and
\* stays at its send until the worker has taken the enqueued request.
C16_CapacityOne ==
    variant = "uniform" =>
      /\ Len(requestCh) <= 1
      /\ \A i \in 1..Len(requestCh) :
            pc[requestCh[i].task] \in {"sent", "recv"} /\ ~Serving(requestCh[i].task)
      /\ \A t \in Callers :
            pc[t] = "send" /\ fatal = "none" =>
              /\ requestCh = <<>> => ENABLED SendUniform(t)
              /\ requestCh # <<>> => ~ENABLED SendUniform(t)

\* A request sits in the channel while the worker is inside the storage call of
\* the previous request.
C16_Witness ==
    /\ variant = "uniform" /\ wpc = "exec" /\ Len(requestCh) = 1
    /\ requestCh[1].task # wreq.task /\ pc[requestCh[1].task] = "recv"

\* -------------------------------------------------------------- C17
\* The uniform-message coordinator with concurrent Sets and Gets and one Close,
\* callers going on to send after the Close included, under fair scheduling.
ShutdownRequests ==
    {Req("Set", "set", RaceKey, ValueFor(RaceKey)), Req("Get", "get", RaceKey, Nil)}

NextShutdown ==
    \/ SumCalls(Callers) < RaceCalls /\
          \E t \in Callers : \E r \in ShutdownRequests : Start(t, r)
    \/ SumCalls(Callers) < RaceCalls /\ ~closed /\ \E t \in Callers : Close(t)
    \/ \E t \in Callers : SendUniform(t)
    \/ \E t \in Callers : AwaitReply(t)
    \/ WorkerRecvUniform
    \/ Worker(FALSE)

FairShutdown ==
    /\ WF_vars(WorkerRecvUniform)
    /\ WF_vars(Worker(FALSE))
    /\ \A t \in Callers : SF_vars(SendUniform(t)) /\ WF_vars(AwaitReply(t))

SpecShutdown == InitUniform /\ [][NextShutdown]_vars /\ FairShutdown

\* The channel has accepted t's request and t has not received its reply.
Accepted(t) == pc[t] \in {"sent", "recv"}

\* While the process lives, an accepted request is in the channel or with the
\* worker, the worker does not return leaving one behind, a sender that finds
\* the channel closed is not blocked, and nothing but a send on the closed
\* channel is fatal.
C17_NothingDropped ==
    /\ fatal \in {"none", "send on closed channel"}
    /\ fatal = "none" =>
          \A t \in Callers :
            /\ Accepted(t) =>
                  /\ Serving(t) \/ \E i \in 1..Len(requestCh) : requestCh[i].task = t
                  /\ wpc # "returned"
            /\ closed /\ pc[t] = "send" => ENABLED SendUniform(t)
    /\ fatal = "send on closed channel" => closed /\ \E t \in Callers : pc[t] = "send"

\* C17: a request in flight when the channel is closed ends in one of two ways.
\* If the channel had accepted it, taken by the worker or still buffered, its
\* caller gets the reply and returns; if its send finds the channel closed, the
\* send is the fatal error "send on closed channel", which ends the process and
\* with it every other request. No accepted request is dropped while the
\* process lives and no caller waits forever.
C17_InFlightAtClose ==
    /\ []C17_NothingDropped
    /\ \A t \in Callers :
          (closed /\ Accepted(t)) ~>
            ((pc[t] = "idle" /\ result[t] # NoReply) \/ fatal = "send on closed channel")
    /\ \A t \in Callers :
          (closed /\ pc[t] = "send") ~> (fatal = "send on closed channel")

\* The channel was closed with a request still buffered and its caller waiting
\* for the reply.
C17_Witness ==
    /\ closed /\ fatal = "none" /\ Len(requestCh) = 1
    /\ pc[requestCh[1].task] = "recv" /\ wpc = "select"

\* -------------------------------------------------------------- C18
\* The uniform-message coordinator with callers of every method and with tasks
\* of the package that put something else on the channel: a request struct by
\* value instead of by pointer, or an int.
ForeignOps == {"gomap.getRequest", "int"}

ForeignMessages == {Req("requestCh <-", op, Nil, Nil) : op \in ForeignOps}

NextForeign ==
    \/ MayCall /\ \E t \in Callers : \E r \in AllRequests("uniform", t) : Start(t, r)
    \/ MayCall /\ \E t \in Callers : \E r \in ForeignMessages : Start(t, r)
    \/ \E t \in Callers : SendUniform(t)
    \/ \E t \in Callers : AwaitReply(t)
    \/ WorkerRecvUniform
    \/ Worker(TRUE)

SpecForeign == InitUniform /\ [][NextForeign]_vars

\* C18: a message of a kind the type switch has no case for makes the worker
\* panic at the dispatch, with a message naming the type; the worker has no
\* other step there, so it neither drops the message nor goes on. A request of
\* one of the eight kinds the methods send never panics: it reaches the storage
\* call, which is the operation of the method that sent it.
C18_UnrecognizedAborts ==
    /\ \A r \in UniformRequests : r.op \in RecognizedOps
    /\ Cardinality(RecognizedOps) = 8
    /\ fatal # "none" =>
          /\ wpc = "dispatch" /\ wreq.req.op \notin RecognizedOps
          /\ fatal = "Unrecognized req type " \o wreq.req.op
    /\ wpc \in {"exec", "reply"} => wreq.req.op \in RecognizedOps
    /\ fatal = "none" /\ wpc = "dispatch" =>
          /\ ENABLED WorkerBegin
          /\ IF wreq.req.op \in RecognizedOps
             THEN ~ENABLED (WorkerBegin /\ (fatal' # "none" \/ wpc' # "exec"))
             ELSE ~ENABLED (WorkerBegin /\ fatal' = "none")
    /\ \A i \in 1..Len(log) :
          /\ log[i].req.op \in RecognizedOps
          /\ log[i].reply = RefCall("uniform", log[i].before, log[i].req).ret
          /\ RefCall("uniform", log[i].before, log[i].req).storage =
                IF i < Len(log) THEN log[i + 1].before ELSE storage

\* The worker served a request and then panicked on a request struct sent by value.
C18_Witness ==
    /\ fatal = "Unrecognized req type gomap.getRequest"
    /\ Len(log) = 1 /\ wpc = "dispatch"

\* -------------------------------------------------------------- C19
\* The requests of the history that looked up a key the Map did not hold.
Missed == {i \in 1..Len(log) : /\ log[i].req.op \in {"get", "delete", "contains"}
                                /\ log[i].req.key \notin DOMAIN log[i].before}

\* The Map as request i of the history left it.
After(i) == IF i < Len(log) THEN log[i + 1].before ELSE storage

\* C19 as stated: Get, Delete and Contains of a missing key never fault, leave
\* the Map unchanged and report the absence as a false found flag.
C19_AbsenceIsFoundFlag ==
    /\ fatal = "none" /\ wpc # "returned"
    /\ \A i \in Missed :
          /\ After(i) = log[i].before
          /\ log[i].reply \in {BoolR(FALSE), FoundR([element |-> Nil, found |-> FALSE])}

\* C19 amended: Get, Delete and Contains of a missing key never fault and never
\* stop the worker, and leave the Map unchanged. Get reports (zero value, false)
\* and Contains false in both coordinators, Delete reports (zero value, false)
\* in the uniform-message coordinator; Delete of the request-typed coordinator
\* has no found flag and returns the length of the Map, which is unchanged.
C19_AbsenceIsAValue ==
    /\ fatal = "none" /\ wpc # "returned"
    /\ \A i \in Missed :
          /\ After(i) = log[i].before
          /\ log[i].reply =
                CASE log[i].req.op = "contains" -> BoolR(FALSE)
                  [] log[i].req.op = "get" -> FoundR([element |-> Nil, found |-> FALSE])
                  [] log[i].req.op = "delete" ->
                       IF variant = "typed" THEN IntR(MapLength(log[i].before))
                       ELSE FoundR([element |-> Nil, found |-> FALSE])

\* The worker served a Delete and then a Get of a key the Map did not hold, for
\* two callers, and both have their results.
C19_Witness ==
    /\ Len(log) = 2 /\ Missed = {1, 2}
    /\ log[1].req.api = "Delete" /\ log[2].req.api = "Get" /\ log[1].task # log[2].task
    /\ \A t \in Callers : pc[t] = "idle" /\ result[t] # NoReply

\* -------------------------------------------------------------- C20
\* Every call that has returned returned what the operation of its own method,
\* on its own key and value, gives on the Map the worker held when it applied
\* that call's request.
C20_OwnResult ==
    \A t \in Callers :
      pc[t] = "idle" /\ calls[t] > 0 =>
        \E i \in Applied(t) :
          /\ log[i].idx = calls[t] /\ log[i].req = req[t]
          /\ result[t] = CASE req[t].api = "UnderlyingMap" -> MapR
                            [] req[t].api = "UnderlyingStorage" -> RawR
                            [] OTHER -> RefCall(variant, log[i].before, req[t]).ret

\* A result reaches a task only from the worker holding that task's request,
\* and no step hands a result to two tasks.
C20_ReplyToSender ==
    \A t \in Callers :
      result'[t] # result[t] /\ result'[t] # NoReply =>
        /\ wreq.task = t /\ wreq.req = req[t] /\ wpc = "reply"
        /\ \A u \in Callers \ {t} : result'[u] = result[u]

\* C20: with concurrent callers, in both coordinators, each caller receives the
\* result of its own request and never that of another caller's.
C20_NoCrossDelivery == []C20_OwnResult /\ [][C20_ReplyToSender]_vars

\* The worker stands at the write of one caller's reply while another caller,
\* whose different request is buffered, also waits on its reply channel.
C20_Witness ==
    \E u \in Callers \ {wreq.task} :
      /\ wpc = "reply" /\ pc[wreq.task] = "recv" /\ pc[u] = "recv"
      /\ req[u].op # wreq.req.op /\ Dispatch(variant, storage, req[u]).reply # wres

====
